---- MODULE Spec2Model ----
(***************************************************************************)
(* Model of the payment service (Hono handlers over a D1/SQLite database). *)
(*                                                                         *)
(* The database executes each statement atomically and nothing spans two   *)
(* statements (index.ts: "DBのトランザクションは使用しない"), so every      *)
(* handler is a sequence of steps, one per awaited statement; the local    *)
(* computation that follows a statement belongs to that statement's step.  *)
(* Requests are independent processes that interleave at statement level.  *)
(***************************************************************************)
EXTENDS Integers, Sequences, FiniteSets, TLC

VARIABLES
    products,            \* table products: set of rows [id, name, price]
    orders,              \* table orders: rows in id order, id = index
    orderDetails,        \* table order_details
    payments,            \* table payments
    users,               \* table users
    transactionHistory,  \* table transaction_history
    req,                 \* per request: handler, position, inputs, locals
    resp,                \* per request: the HTTP response, code 0 = none yet
    pre,                 \* the tables as they were when the latest sequential request began
    historyUserIdColumn  \* the build: column type of transaction_history.user_id in the schema

db == <<products, orders, orderDetails, payments, users, transactionHistory>>
vars == <<products, orders, orderDetails, payments, users, transactionHistory, req, resp, pre,
          historyUserIdColumn>>

----------------------------------------------------------------------------
(* Bounds *)

\* requests per run
MaxReqs == 3
\* requests in flight at the same time (concurrent runs)
MaxInFlight == 2

ReqIds == 1..MaxReqs

\* external identities that already have a users row / that have none
KnownUids == {"u1", "u2"}
UnknownUids == {"u9"}

----------------------------------------------------------------------------
(* Rows *)

UserRow(uid, balance) == [uid |-> uid, balance |-> balance]

OrderRow(totalAmount, status) == [totalAmount |-> totalAmount, status |-> status]

OrderDetailRow(orderId, d) ==
    [orderId |-> orderId, productId |-> d.productId, name |-> d.name,
     price |-> d.price, quantity |-> d.quantity]

PaymentRow(orderId, txn, amount, method, status) ==
    [orderId |-> orderId, transactionId |-> txn, amount |-> amount,
     method |-> method, status |-> status, paidAt |-> FALSE]

HistoryRow(txn, userId, amount, type) ==
    [transactionId |-> txn, userId |-> userId, amount |-> amount,
     transactionType |-> type]

----------------------------------------------------------------------------
(* Queries *)

\* .get(): the first matching row's id, 0 when there is none
FirstId(ids) == IF ids = {} THEN 0 ELSE CHOOSE i \in ids : \A j \in ids : i <= j

\* variant of UserIdIn: the query has no WHERE clause
UserIdIn_NoWhere(table, uid) == FirstId(1..Len(table))

\* SELECT * FROM users WHERE uid = :uid
UserIdIn(table, uid) ==
    FirstId({i \in 1..Len(table) : table[i].uid = uid})

UserIdByUid(uid) == UserIdIn(users, uid)

\* variant of PrepaidPaymentIdIn: the method is not part of the WHERE clause
PrepaidPaymentIdIn_AnyMethod(table, txn) ==
    FirstId({i \in 1..Len(table) : table[i].transactionId = txn})

\* SELECT * FROM payments WHERE transaction_id = :txn AND method = 'prepaid'
PrepaidPaymentIdIn(table, txn) ==
    FirstId({i \in 1..Len(table) :
                table[i].transactionId = txn /\ table[i].method = "prepaid"})

PrepaidPaymentIdByTxn(txn) == PrepaidPaymentIdIn(payments, txn)

\* the payments row that holds a transaction_id (UNIQUE)
PaymentIdByTxn(txn) ==
    FirstId({i \in 1..Len(payments) : payments[i].transactionId = txn})

----------------------------------------------------------------------------
(* drizzle-zod insert schema of transaction_history *)

\* users.id is int(...): the select schema yields a JS number
UsersIdColumnType == "int"

\* transaction_history.user_id: text("user_id") in db/schema.ts; integer in the
\* latest migration, which drizzle-kit generated from the schema, and in the
\* handlers, which cast the parsed row to { userId: number }.  The sources
\* hold both declarations, so a build has either.
HistoryUserIdColumnTypes == {"text", "int"}

\* the zod type createInsertSchema/createSelectSchema derive from a column type
ZodType(columnType) == IF columnType = "int" THEN "number" ELSE "string"

\* transactionHistoryInsertSchema.parse({..., userId: user.id, ...}): user.id
\* comes from userSelectSchema, the schema wants the column's zod type, and
\* zod does not coerce; a mismatch throws (Hono answers 500)
HistoryInsertParses ==
    ZodType(UsersIdColumnType) = ZodType(historyUserIdColumn)

----------------------------------------------------------------------------
(* Requests *)

NoReq ==
    [kind |-> "none", pc |-> "idle", uid |-> "", txn |-> "", amount |-> 0,
     userId |-> 0, newBalance |-> 0, payAmount |-> 0,
     itemData |-> <<>>, details |-> <<>>, method |-> "", chunk |-> 0,
     orderId |-> 0, paymentId |-> 0, alone |-> FALSE]

NoResp ==
    [code |-> 0, error |-> "", transactionId |-> "", amount |-> 0,
     method |-> "", status |-> "", payUrl |-> "", balance |-> 0,
     userId |-> 0, uid |-> ""]

ErrorResp(code, error) == [NoResp EXCEPT !.code = code, !.error = error]

InFlight(r) == req[r].pc \notin {"idle", "done"}

\* request ids are handed out in order
CanStart(r) ==
    /\ req[r].pc = "idle"
    /\ \A q \in ReqIds : q < r => req[q].pc # "idle"

\* concurrent runs: at most MaxInFlight requests at a time
Concurrently == Cardinality({q \in ReqIds : InFlight(q)}) < MaxInFlight

\* a request that begins now; alone (history, for the properties only): no
\* other request was in flight then, so every earlier one had been answered
NewReq == [NoReq EXCEPT !.alone = \A q \in ReqIds : ~InFlight(q)]

\* the handler returns (or throws): its working values are gone; what the
\* request was (kind, uid, txn, body), the catalog it was answered from and
\* the ids of the rows it used or created stay on record
Returned(q) ==
    [q EXCEPT !.pc = "done", !.chunk = 0, !.newBalance = 0, !.payAmount = 0]

Finish(r, response) ==
    /\ req' = [req EXCEPT ![r] = Returned(@)]
    /\ resp' = [resp EXCEPT ![r] = response]

----------------------------------------------------------------------------
(* PUT /api/admin/prepaid/charge/ *)

\* amounts an administrator charges (the request schema wants a positive integer)
ChargeAmounts == {1, 2}

\* amounts charged in the concurrent runs
RacedAmounts == {1}

BeginCharge(r, uids, amounts) ==
    /\ CanStart(r)
    /\ \E uid \in uids, amount \in amounts :
          req' = [req EXCEPT ![r] = [NewReq EXCEPT !.kind = "charge",
                      !.pc = "c_selectUser", !.uid = uid, !.amount = amount]]
    /\ UNCHANGED <<db, resp>>

StartCharge(r) ==
    /\ Concurrently
    /\ BeginCharge(r, KnownUids, RacedAmounts)
    /\ UNCHANGED <<pre, historyUserIdColumn>>

\* const newBalance = userParsed.balance + requestData.amount
ChargeNewBalance(balance, amount) == balance + amount

ChargeSelectUser(r) ==
    /\ req[r].pc = "c_selectUser"
    /\ LET id == UserIdByUid(req[r].uid) IN
          IF id = 0
          THEN Finish(r, ErrorResp(404, "User not found"))
          ELSE /\ req' = [req EXCEPT ![r].pc = "c_updateBalance",
                             ![r].userId = id,
                             ![r].newBalance =
                                 ChargeNewBalance(users[id].balance, req[r].amount)]
               /\ UNCHANGED resp
    /\ UNCHANGED <<db, pre, historyUserIdColumn>>

\* UPDATE users SET balance = :newBalance WHERE id = :user.id
ChargeUpdateBalance(r) ==
    /\ req[r].pc = "c_updateBalance"
    /\ users' = [users EXCEPT ![req[r].userId].balance = req[r].newBalance]
    /\ req' = [req EXCEPT ![r].pc = "c_insertHistory"]
    /\ UNCHANGED <<products, orders, orderDetails, payments, transactionHistory, resp, pre, historyUserIdColumn>>

\* variant of InsertHistory: the statement replaces what the table held
InsertHistory_Replace(table, row) == <<row>>

\* db.insert(transactionHistory).values(row)
InsertHistory(table, row) == Append(table, row)

ChargeTxnIds == {"c1"}

ChargeInsertHistory(r) ==
    /\ req[r].pc = "c_insertHistory"
    /\ IF HistoryInsertParses
       THEN \E txn \in ChargeTxnIds :
              /\ transactionHistory' = InsertHistory(transactionHistory,
                     HistoryRow(txn, req[r].userId, req[r].amount, "charge"))
              /\ Finish(r, [NoResp EXCEPT !.code = 200, !.transactionId = txn,
                               !.userId = req[r].userId, !.uid = req[r].uid,
                               !.amount = req[r].amount,
                               !.balance = req[r].newBalance])
       ELSE /\ Finish(r, ErrorResp(500, "Internal Server Error"))
            /\ UNCHANGED transactionHistory
    /\ UNCHANGED <<products, orders, orderDetails, payments, users, pre, historyUserIdColumn>>

----------------------------------------------------------------------------
(* POST /api/prepaid/pay/:transactionId/ *)

\* transaction ids a client may present: those of payments and an unknown one
PayTxnIds == {"t1", "t2", "t3", "t4", "t9"}

\* the pending prepaid payments of amount 1, which concurrent runs settle
RacedTxnIds == {"t1", "t2"}

BeginPay(r, uids, txns) ==
    /\ CanStart(r)
    /\ \E uid \in uids, txn \in txns :
          req' = [req EXCEPT ![r] = [NewReq EXCEPT !.kind = "pay",
                      !.pc = "p_selectPayment", !.uid = uid, !.txn = txn]]
    /\ UNCHANGED <<db, resp>>

StartPay(r) == Concurrently /\ BeginPay(r, KnownUids, RacedTxnIds) /\ UNCHANGED <<pre, historyUserIdColumn>>

PaySelectPayment(r) ==
    /\ req[r].pc = "p_selectPayment"
    /\ LET id == PrepaidPaymentIdByTxn(req[r].txn) IN
          IF id = 0
          THEN Finish(r, ErrorResp(404, "Payment not found"))
          ELSE IF payments[id].status # "pending"
          THEN Finish(r, ErrorResp(400, "Payment is not pending"))
          ELSE /\ req' = [req EXCEPT ![r].pc = "p_selectUser",
                             ![r].payAmount = payments[id].amount]
               /\ UNCHANGED resp
    /\ UNCHANGED <<db, pre, historyUserIdColumn>>

\* const newBalance = user.balance - payment.amount
PayNewBalance(balance, amount) == balance - amount

\* variants of InsufficientBalance: the balance test dropped; the test off by one
InsufficientBalance_Dropped(newBalance) == FALSE

InsufficientBalance_OffByOne(newBalance) == newBalance < -1

\* if (newBalance < 0) return 400
InsufficientBalance(newBalance) == newBalance < 0

PaySelectUser(r) ==
    /\ req[r].pc = "p_selectUser"
    /\ LET id == UserIdByUid(req[r].uid) IN
          IF id = 0
          THEN Finish(r, ErrorResp(404, "User not found"))
          ELSE LET newBalance == PayNewBalance(users[id].balance, req[r].payAmount) IN
               IF InsufficientBalance(newBalance)
               THEN Finish(r, ErrorResp(400, "Insufficient balance"))
               ELSE /\ req' = [req EXCEPT ![r].pc = "p_updateBalance",
                                  ![r].userId = id, ![r].newBalance = newBalance]
                    /\ UNCHANGED resp
    /\ UNCHANGED <<db, pre, historyUserIdColumn>>

\* UPDATE users SET balance = :newBalance WHERE uid = :uid
PayUpdateBalance(r) ==
    /\ req[r].pc = "p_updateBalance"
    /\ users' = [i \in 1..Len(users) |->
                    IF users[i].uid = req[r].uid
                    THEN [users[i] EXCEPT !.balance = req[r].newBalance]
                    ELSE users[i]]
    /\ req' = [req EXCEPT ![r].pc = "p_updatePayment"]
    /\ UNCHANGED <<products, orders, orderDetails, payments, transactionHistory, resp, pre, historyUserIdColumn>>

\* UPDATE payments SET status = 'completed', paid_at = now WHERE transaction_id = :txn
PayUpdatePayment(r) ==
    /\ req[r].pc = "p_updatePayment"
    /\ payments' = [i \in 1..Len(payments) |->
                       IF payments[i].transactionId = req[r].txn
                       THEN [payments[i] EXCEPT !.status = "completed", !.paidAt = TRUE]
                       ELSE payments[i]]
    /\ req' = [req EXCEPT ![r].pc = "p_reselectPayment"]
    /\ UNCHANGED <<products, orders, orderDetails, users, transactionHistory, resp, pre, historyUserIdColumn>>

\* updatedPayment = SELECT ... WHERE transaction_id = :txn; the response is built from it
PayReselectPayment(r) ==
    /\ req[r].pc = "p_reselectPayment"
    /\ LET id == PaymentIdByTxn(req[r].txn) IN
          IF id = 0
          THEN Finish(r, ErrorResp(500, "Internal Server Error"))
          ELSE /\ req' = [req EXCEPT ![r].pc = "p_insertHistory"]
               /\ resp' = [resp EXCEPT ![r] = [NoResp EXCEPT
                              !.transactionId = payments[id].transactionId,
                              !.amount = payments[id].amount,
                              !.method = payments[id].method,
                              !.status = payments[id].status]]
    /\ UNCHANGED <<db, pre, historyUserIdColumn>>

PayInsertHistory(r) ==
    /\ req[r].pc = "p_insertHistory"
    /\ IF HistoryInsertParses
       THEN /\ transactionHistory' = InsertHistory(transactionHistory,
                   HistoryRow(req[r].txn, req[r].userId, req[r].payAmount, "payment"))
            /\ Finish(r, [resp[r] EXCEPT !.code = 200])
       ELSE /\ Finish(r, ErrorResp(500, "Internal Server Error"))
            /\ UNCHANGED transactionHistory
    /\ UNCHANGED <<products, orders, orderDetails, payments, users, pre, historyUserIdColumn>>

----------------------------------------------------------------------------
(* POST /api/orders/ *)

\* chunk(list, 10): statement-size limit of the upserts and the detail inserts
ChunkSize == 10

\* variant of NumChunks: the list is taken to be empty, no chunk is written
NumChunks_None(list) == 0

\* chunk(list, ChunkSize).length
NumChunks(list) == (Len(list) + ChunkSize - 1) \div ChunkSize

\* the k-th chunk of es-toolkit's chunk(list, ChunkSize)
Chunk(list, k) ==
    SubSeq(list, (k - 1) * ChunkSize + 1,
           IF k * ChunkSize < Len(list) THEN k * ChunkSize ELSE Len(list))

Item(code, name, price) == [jan_code |-> code, name |-> name, price |-> price]

Detail(productId, name, price, quantity) ==
    [productId |-> productId, name |-> name, price |-> price, quantity |-> quantity]

\* product lists the item API may answer with
Catalogs ==
    { <<>>,
      <<Item("p1", "n1", 1)>>,
      <<Item("p1", "n1", 2)>>,
      <<Item("p2", "n1", 1)>>,
      <<Item("p1", "n1", 1), Item("p2", "n2", 2)>> }

DetailLists ==
    { <<>>,
      <<Detail("p1", "n1", 1, 0)>>,
      <<Detail("p1", "n1", 1, 1)>>,
      <<Detail("p1", "n1", 1, 2)>>,
      <<Detail("p1", "n1", 2, 1)>>,
      <<Detail("p2", "n2", 2, 1)>>,
      <<Detail("p1", "n1", 1, 1), Detail("p2", "n2", 2, 1)>>,
      <<Detail("p1", "n1", 1, 1), Detail("p1", "n1", 1, 1)>> }

\* totals a client declares
DeclaredTotals == {0, 1, 2, 3}

PaymentMethods == {"cash", "prepaid"}

RequestBodies ==
    [details : DetailLists, totalAmount : DeclaredTotals, paymentMethod : PaymentMethods]

\* names for the values crypto.randomUUID() returns
TxnPool == <<"t1", "t2", "t3", "t5">>

\* createOrder requests per run
MaxOrders == 2

\* INSERT ... ON CONFLICT (id) DO UPDATE SET name = excluded.name, price = excluded.price
\* for one row; name is UNIQUE, and a clash with another id's name is an error
UpsertRow(table, row) ==
    LET others == {p \in table : p.id # row.id} IN
    IF \E p \in others : p.name = row.name
    THEN [ok |-> FALSE, rows |-> table]
    ELSE [ok |-> TRUE, rows |-> others \cup {row}]

\* one multi-row upsert statement: rows in order, the first error aborts it
RECURSIVE UpsertRows(_, _)
UpsertRows(table, rows) ==
    IF rows = <<>> THEN [ok |-> TRUE, rows |-> table]
    ELSE LET one == UpsertRow(table, Head(rows)) IN
         IF one.ok THEN UpsertRows(one.rows, Tail(rows)) ELSE one

ProductOfItem(item) == [id |-> item.jan_code, name |-> item.name, price |-> item.price]

ProductsOfItems(items) == [i \in 1..Len(items) |-> ProductOfItem(items[i])]

\* variants of ItemMatches: the declared price is not compared; the id is not
ItemMatches_PriceOnly(item, detail) == item.price = detail.price

ItemMatches_IdOnly(item, detail) == item.jan_code = detail.productId

\* item.jan_code === detail.productId && item.price === detail.price
ItemMatches(item, detail) ==
    item.jan_code = detail.productId /\ item.price = detail.price

\* itemData.find(...): index of the first match, 0 for undefined
FindItem(itemData, detail) ==
    FirstId({i \in 1..Len(itemData) : ItemMatches(itemData[i], detail)})

UnknownProduct(itemData, details) ==
    \E i \in 1..Len(details) : FindItem(itemData, details[i]) = 0

\* details.reduce((acc, detail) => acc + item.price * detail.quantity, 0)
RECURSIVE ComputedTotal(_, _)
ComputedTotal(itemData, details) ==
    IF details = <<>> THEN 0
    ELSE LET d == details[Len(details)] IN
         ComputedTotal(itemData, SubSeq(details, 1, Len(details) - 1))
           + itemData[FindItem(itemData, d)].price * d.quantity

\* variant of TotalMismatch: the declared total is not compared
TotalMismatch_Never(computed, declared) == FALSE

\* if (totalAmount !== requestData.totalAmount) return 400
TotalMismatch(computed, declared) == computed # declared

\* variant of InitialPaymentStatus: a zero total does not complete the payment
InitialPaymentStatus_CashOnly(method, totalAmount) ==
    IF method = "cash" THEN "completed" ELSE "pending"

\* paymentMethod === "cash" || totalAmount === 0 ? "completed" : "pending"
InitialPaymentStatus(method, totalAmount) ==
    IF method = "cash" \/ totalAmount = 0 THEN "completed" ELSE "pending"

\* variant of PayUrl: the URL is produced whatever the status
PayUrl_Always(status, txn) == "/pay?txnId=" \o txn

\* payment.status === "pending" ? `${CONSUMER_SITE_BASE_URL}/pay?txnId=${txnId}` : null
\* (the base URL is left out; "" stands for null)
PayUrl(status, txn) == IF status = "pending" THEN "/pay?txnId=" \o txn ELSE ""

\* the request arrives
BeginOrder(r) ==
    /\ CanStart(r)
    /\ r <= MaxOrders
    /\ req' = [req EXCEPT ![r] = [NewReq EXCEPT !.kind = "order", !.pc = "o_fetch"]]
    /\ UNCHANGED <<db, resp>>

StartOrder(r) == Concurrently /\ BeginOrder(r) /\ UNCHANGED <<pre, historyUserIdColumn>>

\* variant of FetchFails: an order row is written before the fetch is awaited
FetchFails_AfterInsert(r) ==
    /\ orders' = Append(orders, OrderRow(0, "pending"))
    /\ Finish(r, ErrorResp(500, "Internal Server Error"))
    /\ UNCHANGED <<products, orderDetails, payments, users, transactionHistory>>

\* ofetch rejects (network error, non-2xx status): the handler throws at its
\* first await, before any statement (Hono answers 500)
FetchFails(r) ==
    /\ Finish(r, ErrorResp(500, "Internal Server Error"))
    /\ UNCHANGED db

\* itemData = await ofetch(ITEM_API_URL); a failed fetch throws
OrderFetch(r) ==
    /\ req[r].pc = "o_fetch"
    /\ \/ \E items \in Catalogs :
             /\ req' = [req EXCEPT ![r].itemData = items, ![r].chunk = 1,
                           ![r].pc = IF NumChunks(items) = 0 THEN "o_insertOrder"
                                     ELSE "o_upsert"]
             /\ UNCHANGED <<db, resp>>
       \/ FetchFails(r)
    /\ UNCHANGED <<pre, historyUserIdColumn>>

OrderUpsert(r) ==
    /\ req[r].pc = "o_upsert"
    /\ LET rows == ProductsOfItems(Chunk(req[r].itemData, req[r].chunk))
           res == UpsertRows(products, rows)
       IN  IF res.ok
           THEN /\ products' = res.rows
                /\ req' = [req EXCEPT ![r].chunk = @ + 1,
                              ![r].pc = IF req[r].chunk = NumChunks(req[r].itemData)
                                        THEN "o_insertOrder" ELSE "o_upsert"]
                /\ UNCHANGED resp
           ELSE /\ Finish(r, ErrorResp(500, "Internal Server Error"))
                /\ UNCHANGED products
    /\ UNCHANGED <<orders, orderDetails, payments, users, transactionHistory, pre, historyUserIdColumn>>

\* variant of InsertedId: the first row's id, not the inserted row's
InsertedId_First(table) == 1

\* (await db.insert(...).returning())[0].id: the AUTOINCREMENT id of the row
\* the statement appends to the table
InsertedId(table) == Len(table) + 1

\* requestData = c.req.valid("json"), the price check and the total check run
\* in the handler without touching the database; when they pass, the next
\* statement is
\* INSERT INTO orders (total_amount, status) VALUES (:totalAmount, 'pending') RETURNING *
OrderInsertOrder(r) ==
    /\ req[r].pc = "o_insertOrder"
    /\ \E body \in RequestBodies :
          LET q == [req[r] EXCEPT !.details = body.details,
                                  !.amount = body.totalAmount,
                                  !.method = body.paymentMethod]
          IN  IF UnknownProduct(q.itemData, q.details)
              THEN /\ req' = [req EXCEPT ![r] = Returned(q)]
                   /\ resp' = [resp EXCEPT ![r] = ErrorResp(400, "Unknown product")]
                   /\ UNCHANGED orders
              ELSE IF TotalMismatch(ComputedTotal(q.itemData, q.details), q.amount)
              THEN /\ req' = [req EXCEPT ![r] = Returned(q)]
                   /\ resp' = [resp EXCEPT ![r] = ErrorResp(400, "Invalid totalAmount")]
                   /\ UNCHANGED orders
              ELSE /\ orders' = Append(orders, OrderRow(q.amount, "pending"))
                   /\ req' = [req EXCEPT ![r] =
                          [q EXCEPT !.orderId = InsertedId(orders), !.chunk = 1,
                                    !.pc = IF NumChunks(q.details) = 0
                                           THEN "o_insertPayment"
                                           ELSE "o_insertDetails"]]
                   /\ UNCHANGED resp
    /\ UNCHANGED <<products, orderDetails, payments, users, transactionHistory, pre, historyUserIdColumn>>

\* order_details: product_id REFERENCES products(id), UNIQUE (order_id, product_id)
DetailsInsertOk(table, rows) ==
    LET all == table \o rows IN
    /\ \A i \in 1..Len(rows) : \E p \in products : p.id = rows[i].productId
    /\ \A i, j \in 1..Len(all) :
          (all[i].orderId = all[j].orderId /\ all[i].productId = all[j].productId)
             => i = j

OrderInsertDetails(r) ==
    /\ req[r].pc = "o_insertDetails"
    /\ LET chunk == Chunk(req[r].details, req[r].chunk)
           rows == [i \in 1..Len(chunk) |-> OrderDetailRow(req[r].orderId, chunk[i])]
       IN  IF DetailsInsertOk(orderDetails, rows)
           THEN /\ orderDetails' = orderDetails \o rows
                /\ req' = [req EXCEPT ![r].chunk = @ + 1,
                              ![r].pc = IF req[r].chunk = NumChunks(req[r].details)
                                        THEN "o_insertPayment" ELSE "o_insertDetails"]
                /\ UNCHANGED resp
           ELSE /\ Finish(r, ErrorResp(500, "Internal Server Error"))
                /\ UNCHANGED orderDetails
    /\ UNCHANGED <<products, orders, payments, users, transactionHistory, pre, historyUserIdColumn>>

\* the response is built from the row the payment insert returned
OrderResponse(payment, txn) ==
    [NoResp EXCEPT !.transactionId = payment.transactionId,
                   !.amount = payment.amount, !.method = payment.method,
                   !.status = payment.status,
                   !.payUrl = PayUrl(payment.status, txn)]

\* txnId = crypto.randomUUID(): a value some payment row already carries, or
\* a new one (the first unused name stands for all of them)
RandomUUIDs ==
    LET used == {i \in 1..Len(TxnPool) : PaymentIdByTxn(TxnPool[i]) # 0}
        free == (1..Len(TxnPool)) \ used
    IN  {TxnPool[i] : i \in used}
           \cup (IF free = {} THEN {} ELSE {TxnPool[FirstId(free)]})

\* variant of ImmediatelyCompleted: the follow-up write is never made
ImmediatelyCompleted_Never(payment) == FALSE

\* if (payment.status === "completed") { UPDATE orders ... }
ImmediatelyCompleted(payment) == payment.status = "completed"

\* variant of TxnTaken: no unique index on transaction_id
TxnTaken_Never(txn) == FALSE

\* payments_transaction_id_unique: a row carries the transaction id
TxnTaken(txn) == PaymentIdByTxn(txn) # 0

\* INSERT INTO payments ... RETURNING *; transaction_id is UNIQUE: the insert
\* of a taken id throws (Hono answers 500)
OrderInsertPayment(r) ==
    /\ req[r].pc = "o_insertPayment"
    /\ \E txn \in RandomUUIDs :
          IF TxnTaken(txn)
          THEN /\ Finish(r, ErrorResp(500, "Internal Server Error"))
               /\ UNCHANGED payments
          ELSE LET payment == PaymentRow(req[r].orderId, txn, req[r].amount,
                                  req[r].method,
                                  InitialPaymentStatus(req[r].method, req[r].amount))
               IN  /\ payments' = Append(payments, payment)
                   /\ IF ImmediatelyCompleted(payment)
                      THEN /\ req' = [req EXCEPT ![r].txn = txn,
                                         ![r].paymentId = Len(payments) + 1,
                                         ![r].pc = "o_updateOrder"]
                           /\ resp' = [resp EXCEPT ![r] = OrderResponse(payment, txn)]
                      ELSE /\ req' = [req EXCEPT ![r] =
                                  Returned([@ EXCEPT !.txn = txn,
                                               !.paymentId = Len(payments) + 1])]
                           /\ resp' = [resp EXCEPT ![r] =
                                  [OrderResponse(payment, txn) EXCEPT !.code = 200]]
    /\ UNCHANGED <<products, orders, orderDetails, users, transactionHistory, pre, historyUserIdColumn>>

\* variant of SetCompleted: the update writes total_amount as well
SetCompleted_Zeroed(order) == OrderRow(0, "completed")

\* .set({ status: "completed" })
SetCompleted(order) == [order EXCEPT !.status = "completed"]

\* UPDATE orders SET status = 'completed' WHERE id = :order.id
OrderUpdateOrder(r) ==
    /\ req[r].pc = "o_updateOrder"
    /\ orders' = [orders EXCEPT ![req[r].orderId] = SetCompleted(@)]
    /\ Finish(r, [resp[r] EXCEPT !.code = 200])
    /\ UNCHANGED <<products, orderDetails, payments, users, transactionHistory, pre, historyUserIdColumn>>

OrderStep(r) ==
    \/ OrderFetch(r)
    \/ OrderUpsert(r)
    \/ OrderInsertOrder(r)
    \/ OrderInsertDetails(r)
    \/ OrderInsertPayment(r)
    \/ OrderUpdateOrder(r)

----------------------------------------------------------------------------
(* GET /api/payments/:transactionId/ *)

\* transaction ids looked up: one a stored payment has, one no payment has
LookupTxnIds == {"t2", "t9"}

BeginGetPayment(r, txns) ==
    /\ CanStart(r)
    /\ \E txn \in txns :
          req' = [req EXCEPT ![r] = [NewReq EXCEPT !.kind = "getPayment",
                      !.pc = "g_selectPayment", !.txn = txn]]
    /\ UNCHANGED <<db, resp>>

\* db.select().from(payments).get({ transactionId }): the query has no WHERE
\* clause and no placeholder, so the argument of get() is not used: SELECT *
\* FROM payments, of which get() takes the first row the scan yields (no
\* ORDER BY: any row), or undefined from an empty table
ScannedPaymentIds(txn) == 1..Len(payments)

\* paymentSelectSchema.parse(undefined) throws (Hono answers 500)
GetPaymentSelect(r) ==
    /\ req[r].pc = "g_selectPayment"
    /\ IF ScannedPaymentIds(req[r].txn) = {}
       THEN Finish(r, ErrorResp(500, "Internal Server Error"))
       ELSE \E i \in ScannedPaymentIds(req[r].txn) :
               Finish(r, [NoResp EXCEPT !.code = 200,
                             !.transactionId = payments[i].transactionId,
                             !.amount = payments[i].amount,
                             !.method = payments[i].method,
                             !.status = payments[i].status])
    /\ UNCHANGED <<db, pre, historyUserIdColumn>>

----------------------------------------------------------------------------
(* GET /api/profile/ *)

\* identities looking up their profile: one with a row, one without
ProfileUids == {"u1", "u9"}

BeginProfile(r, uids) ==
    /\ CanStart(r)
    /\ \E uid \in uids :
          req' = [req EXCEPT ![r] = [NewReq EXCEPT !.kind = "profile",
                      !.pc = "f_selectUser", !.uid = uid]]
    /\ UNCHANGED <<db, resp>>

\* c.json({ id: user.id, uid: user.uid, balance: user.balance })
ProfileResponse(id, user) ==
    [NoResp EXCEPT !.code = 200, !.userId = id, !.uid = user.uid,
                   !.balance = user.balance]

\* variant of ProfileFound: the row that was read is ignored
ProfileFound_Never(id) == FALSE

\* if (_user === undefined) { insert } : the lookup found a row
ProfileFound(id) == id # 0

\* let _user = SELECT * FROM users WHERE uid = :uid
ProfileSelectUser(r) ==
    /\ req[r].pc = "f_selectUser"
    /\ LET id == UserIdByUid(req[r].uid) IN
          IF ProfileFound(id)
          THEN Finish(r, ProfileResponse(id, users[id]))
          ELSE /\ req' = [req EXCEPT ![r].pc = "f_insertUser"]
               /\ UNCHANGED resp
    /\ UNCHANGED <<db, pre, historyUserIdColumn>>

\* INSERT INTO users (uid, balance) VALUES (:uid, 0) RETURNING *; uid is
\* UNIQUE: the insert throws when a row holds the uid by now (Hono answers 500)
ProfileInsertUser(r) ==
    /\ req[r].pc = "f_insertUser"
    /\ IF UserIdByUid(req[r].uid) # 0
       THEN /\ Finish(r, ErrorResp(500, "Internal Server Error"))
            /\ UNCHANGED users
       ELSE /\ users' = Append(users, UserRow(req[r].uid, 0))
            /\ req' = [req EXCEPT ![r] = Returned([@ EXCEPT !.userId = Len(users) + 1])]
            /\ resp' = [resp EXCEPT ![r] =
                   ProfileResponse(Len(users) + 1, UserRow(req[r].uid, 0))]
    /\ UNCHANGED <<products, orders, orderDetails, payments, transactionHistory, pre, historyUserIdColumn>>

ProfileStep(r) ==
    \/ ProfileSelectUser(r)
    \/ ProfileInsertUser(r)

----------------------------------------------------------------------------
(* The database once two users have fetched their profile (balance 0) and  *)
(* four orders were placed: three prepaid ones, pending, and a cash one,   *)
(* completed at creation.                                                  *)

SeedProducts == {[id |-> "p1", name |-> "n1", price |-> 1]}

SeedDetail(quantity) ==
    [productId |-> "p1", name |-> "n1", price |-> 1, quantity |-> quantity]

Snapshot ==
    [products |-> products, orders |-> orders, orderDetails |-> orderDetails,
     payments |-> payments, users |-> users,
     transactionHistory |-> transactionHistory]

InitSeeded ==
    /\ products = SeedProducts
    /\ orders = <<OrderRow(1, "pending"), OrderRow(1, "pending"),
                  OrderRow(1, "completed"), OrderRow(2, "pending")>>
    /\ orderDetails = <<OrderDetailRow(1, SeedDetail(1)), OrderDetailRow(2, SeedDetail(1)),
                        OrderDetailRow(3, SeedDetail(1)), OrderDetailRow(4, SeedDetail(2))>>
    /\ payments = <<PaymentRow(1, "t1", 1, "prepaid", "pending"),
                    PaymentRow(2, "t2", 1, "prepaid", "pending"),
                    PaymentRow(3, "t3", 1, "cash", "completed"),
                    PaymentRow(4, "t4", 2, "prepaid", "pending")>>
    /\ users = <<UserRow("u1", 0), UserRow("u2", 0)>>
    /\ transactionHistory = <<>>
    /\ req = [r \in ReqIds |-> NoReq]
    /\ resp = [r \in ReqIds |-> NoResp]
    /\ pre = Snapshot
    /\ historyUserIdColumn \in HistoryUserIdColumnTypes

Init == InitSeeded

ChargeStep(r) ==
    \/ ChargeSelectUser(r)
    \/ ChargeUpdateBalance(r)
    \/ ChargeInsertHistory(r)

PayStep(r) ==
    \/ PaySelectPayment(r)
    \/ PaySelectUser(r)
    \/ PayUpdateBalance(r)
    \/ PayUpdatePayment(r)
    \/ PayReselectPayment(r)
    \/ PayInsertHistory(r)

Next ==
    \E r \in ReqIds :
        \/ StartCharge(r)
        \/ StartPay(r)
        \/ ChargeStep(r)
        \/ PayStep(r)

\* concurrent admin-charge and pay requests over the seeded database
Spec == Init /\ [][Next]_vars

\* the database after the migrations: every table empty
InitEmpty ==
    /\ products = {}
    /\ orders = <<>>
    /\ orderDetails = <<>>
    /\ payments = <<>>
    /\ users = <<>>
    /\ transactionHistory = <<>>
    /\ req = [r \in ReqIds |-> NoReq]
    /\ resp = [r \in ReqIds |-> NoResp]
    /\ pre = Snapshot
    /\ historyUserIdColumn \in HistoryUserIdColumnTypes

NextOrder ==
    \E r \in ReqIds :
        \/ StartOrder(r)
        \/ OrderStep(r)

\* concurrent createOrder requests from the empty database
SpecOrder == InitEmpty /\ [][NextOrder]_vars

\* a request begins only when no other is in flight, and the tables are recorded
SeqStart(r) ==
    /\ \A q \in ReqIds : ~InFlight(q)
    /\ \/ BeginCharge(r, KnownUids \cup UnknownUids, ChargeAmounts)
       \/ BeginPay(r, KnownUids \cup UnknownUids, PayTxnIds)
       \/ BeginGetPayment(r, LookupTxnIds)
       \/ BeginProfile(r, ProfileUids)
    /\ pre' = Snapshot
    /\ UNCHANGED historyUserIdColumn

NextSeq ==
    \E r \in ReqIds :
        \/ SeqStart(r)
        \/ ChargeStep(r)
        \/ PayStep(r)
        \/ GetPaymentSelect(r)
        \/ ProfileStep(r)

\* requests one after the other over the seeded database: admin charge, pay,
\* payment lookup, profile
SpecSeq == Init /\ [][NextSeq]_vars

\* transaction ids settled next to a checkout: a seeded payment's, and the
\* one the checkout's payment gets
CheckoutTxnIds == {"t1", "t5"}

\* the caller of the pay requests, and of the charges
CheckoutUids == {"u1"}

\* the first request may be a checkout; charges and pay requests run beside it
StartAny(r) ==
    /\ Concurrently
    /\ \/ r = 1 /\ BeginOrder(r)
       \/ BeginCharge(r, CheckoutUids, ChargeAmounts)
       \/ BeginPay(r, CheckoutUids, CheckoutTxnIds)
    /\ UNCHANGED <<pre, historyUserIdColumn>>

NextAll ==
    \E r \in ReqIds :
        \/ StartAny(r)
        \/ OrderStep(r)
        \/ ChargeStep(r)
        \/ PayStep(r)

\* a checkout, charges and pay requests, concurrent, over the seeded database
SpecAll == Init /\ [][NextAll]_vars

\* the statement (or the catalog fetch) a createOrder request awaits rejects
\* without having been applied, or the worker dies there: the request ends
\* between two statements
OrderFault(r) ==
    /\ req[r].kind = "order"
    /\ InFlight(r)
    /\ Finish(r, ErrorResp(500, "Internal Server Error"))
    /\ UNCHANGED <<db, pre, historyUserIdColumn>>

NextOrderFault ==
    \E r \in ReqIds :
        \/ StartOrder(r)
        \/ OrderStep(r)
        \/ OrderFault(r)

\* concurrent createOrder requests that may end between any two statements
SpecOrderFault == InitEmpty /\ [][NextOrderFault]_vars

\* the statement a pay request awaits rejects (D1 timeout, transport error)
\* without having been applied: the handler throws, Hono answers 500
PayFault(r) ==
    /\ req[r].kind = "pay"
    /\ InFlight(r)
    /\ Finish(r, ErrorResp(500, "Internal Server Error"))
    /\ UNCHANGED <<db, pre, historyUserIdColumn>>

\* the caller whose requests meet storage faults
FaultUids == {"u1"}

\* a charge, a pay request or the retry of one begins when nothing is in flight
FaultStart(r) ==
    /\ \A q \in ReqIds : ~InFlight(q)
    /\ \/ BeginCharge(r, FaultUids, ChargeAmounts)
       \/ BeginPay(r, FaultUids, RacedTxnIds)
    /\ pre' = Snapshot
    /\ UNCHANGED historyUserIdColumn

NextFault ==
    \E r \in ReqIds :
        \/ FaultStart(r)
        \/ ChargeStep(r)
        \/ PayStep(r)
        \/ PayFault(r)

\* charge and pay requests one after the other, pay requests failing on storage
SpecFault == Init /\ [][NextFault]_vars

StartProfile(r) ==
    /\ Concurrently
    /\ BeginProfile(r, ProfileUids)
    /\ UNCHANGED <<pre, historyUserIdColumn>>

NextProfile ==
    \E r \in ReqIds :
        \/ StartProfile(r)
        \/ ProfileStep(r)

\* concurrent profile lookups over the seeded database
SpecProfile == Init /\ [][NextProfile]_vars

----------------------------------------------------------------------------
(* Vocabulary of the properties *)

\* no request is in flight
Quiescent == \A r \in ReqIds : ~InFlight(r)

Answered(r) == req[r].pc = "done"

Rejected(r, code, error) ==
    Answered(r) /\ resp[r].code = code /\ resp[r].error = error

\* the handler returned its JSON response
Succeeded(r) == Answered(r) /\ resp[r].code = 200

\* the handler threw after it had begun: Hono answered 500
FailedMidway(r) == Answered(r) /\ resp[r].code = 500

\* the request has executed its UPDATE users SET balance
WroteBalance(r) ==
    \/ req[r].pc \in {"c_insertHistory", "p_updatePayment", "p_reselectPayment",
                      "p_insertHistory"}
    \/ /\ Answered(r)
       /\ req[r].kind \in {"charge", "pay"}
       /\ resp[r].code \in {200, 500}

Charges == {r \in ReqIds : req[r].kind = "charge"}

Pays == {r \in ReqIds : req[r].kind = "pay"}

\* sum of f over the request ids in S
RECURSIVE SumReqs(_, _)
SumReqs(S, f) ==
    IF S = {} THEN 0
    ELSE LET r == CHOOSE x \in S : TRUE IN f[r] + SumReqs(S \ {r}, f)

\* sum of a sequence of integers
RECURSIVE SumSeq(_)
SumSeq(s) == IF s = <<>> THEN 0 ELSE Head(s) + SumSeq(Tail(s))

\* what the charges in S added to user id's balance, had none been lost
ChargedTo(S, id) ==
    SumReqs({r \in S : WroteBalance(r) /\ req[r].userId = id},
            [r \in ReqIds |-> req[r].amount])

HistoryTotal(id, type) ==
    SumSeq([i \in 1..Len(transactionHistory) |->
               IF /\ transactionHistory[i].userId = id
                  /\ transactionHistory[i].transactionType = type
               THEN transactionHistory[i].amount ELSE 0])

TotalBalance == SumSeq([i \in 1..Len(users) |-> users[i].balance])

----------------------------------------------------------------------------
(* C1: in every reachable state, under any interleaving of admin-charge and *)
(* pay requests, every user's balance is >= 0.                              *)
C1_BalanceNeverNegative == \A i \in 1..Len(users) : users[i].balance >= 0

\* two pay requests of one user race: one has written the balance, the other
\* has passed the balance check and is about to write
C1_Witness ==
    \E r1, r2 \in Pays :
        /\ r1 # r2
        /\ req[r1].uid = req[r2].uid
        /\ req[r1].pc = "p_updatePayment"
        /\ req[r2].pc = "p_updateBalance"
        /\ \E c \in Charges : WroteBalance(c) /\ req[c].userId = req[r1].userId

(* C2: a user with balance B settles two distinct pending prepaid payments  *)
(* of amount B each: under every interleaving exactly one settlement        *)
(* succeeds (its payment completes), the other is rejected with             *)
(* InsufficientBalance, and the final balance is 0.  The balance B comes    *)
(* from one admin charge answered before either pay request began; nothing  *)
(* else runs.                                                               *)
C2_ExactlyOneOfTwoSettles ==
    \A c \in Charges, r1, r2 \in Pays :
        ( /\ c < r1 /\ r1 < r2
          /\ \A q \in ReqIds \ {c, r1, r2} : req[q].pc = "idle"
          /\ Answered(c) /\ Answered(r1) /\ Answered(r2)
          /\ WroteBalance(c)
          /\ req[r1].alone
          /\ req[r1].uid = req[c].uid /\ req[r2].uid = req[c].uid
          /\ req[r1].txn # req[r2].txn
          /\ PrepaidPaymentIdByTxn(req[r1].txn) # 0
          /\ PrepaidPaymentIdByTxn(req[r2].txn) # 0
          /\ payments[PrepaidPaymentIdByTxn(req[r1].txn)].amount = req[c].amount
          /\ payments[PrepaidPaymentIdByTxn(req[r2].txn)].amount = req[c].amount )
        => /\ users[req[c].userId].balance = 0
           /\ \E w \in {r1, r2} :
                 LET l == CHOOSE x \in {r1, r2} : x # w IN
                 /\ WroteBalance(w)
                 /\ payments[PrepaidPaymentIdByTxn(req[w].txn)].status = "completed"
                 /\ Rejected(l, 400, "Insufficient balance")
                 /\ payments[PrepaidPaymentIdByTxn(req[l].txn)].status = "pending"

(* C3: concurrent credits lose no update: when the requests of a run are    *)
(* admin charges, run in any interleaving, that have all returned           *)
(* successfully (200), every user's balance is the initial balance (0) plus *)
(* the sum of the amounts charged to that user.                             *)
C3_CreditsNeverLost ==
    (\A r \in ReqIds : req[r].pc = "idle" \/ (r \in Charges /\ Succeeded(r)))
    => \A id \in 1..Len(users) : users[id].balance = ChargedTo(Charges, id)

(* C4: whenever no request is in flight and none failed midway, each user's *)
(* balance is the sum of that user's 'charge' history rows minus the sum of *)
(* the user's 'payment' history rows, whatever interleaving of charge and   *)
(* pay requests led there.                                                  *)
C4_BalanceMatchesHistory ==
    (Quiescent /\ \A r \in ReqIds : ~FailedMidway(r)) =>
        \A id \in 1..Len(users) :
            users[id].balance = HistoryTotal(id, "charge") - HistoryTotal(id, "payment")

(* C5: whatever the interleaving of the pay requests for one transactionId, *)
(* at most one of them succeeds, the balances go down by at most one        *)
(* payment amount in total, and at most one 'payment' history row carries   *)
(* that transactionId.  The balances come from admin charges answered one   *)
(* after the other before any pay request began.                            *)
C5_AtMostOneSettlementPerPayment ==
    \A t \in PayTxnIds :
        ( /\ Quiescent
          /\ PrepaidPaymentIdByTxn(t) # 0
          /\ \A p \in Pays : req[p].txn = t
          /\ \A c \in Charges : req[c].alone /\ \A p \in Pays : c < p
          /\ \A p \in Pays : (\A q \in Pays : p <= q) => req[p].alone )
        => /\ Cardinality({p \in Pays : Succeeded(p)}) <= 1
           /\ TotalBalance >=
                 SumReqs({c \in Charges : WroteBalance(c)},
                         [r \in ReqIds |-> req[r].amount])
                   - payments[PrepaidPaymentIdByTxn(t)].amount
           /\ Cardinality({i \in 1..Len(transactionHistory) :
                             /\ transactionHistory[i].transactionId = t
                             /\ transactionHistory[i].transactionType = "payment"}) <= 1

(* C7: whenever no request is in flight and none failed midway, an order is *)
(* 'completed' if and only if its payment is 'completed'; so it is after a  *)
(* prepaid payment was settled successfully by a pay request.               *)
C7_OrderCompletedIffPaymentCompleted ==
    (Quiescent /\ \A r \in ReqIds : ~FailedMidway(r)) =>
        \A i \in 1..Len(payments) :
            (orders[payments[i].orderId].status = "completed")
               <=> (payments[i].status = "completed")

\* the history row type a handler writes
HistoryTypeOf(kind) == IF kind = "charge" THEN "charge" ELSE "payment"

(* C27: the transaction history is append-only and trails the balance: no
   step updates or deletes a history row, and a 'charge' or 'payment' row is
   appended only by a request that has executed its balance update, never
   before it, and never by a request that is rejected. *)
C27_HistoryTrailsBalance ==
    [][ \/ transactionHistory' = transactionHistory
        \/ /\ Len(transactionHistory') = Len(transactionHistory) + 1
           /\ SubSeq(transactionHistory', 1, Len(transactionHistory)) = transactionHistory
           /\ \E r \in Charges \cup Pays :
                 /\ InFlight(r) /\ WroteBalance(r)
                 /\ req'[r].pc = "done" /\ resp'[r].code = 200
                 /\ LET row == transactionHistory'[Len(transactionHistory')] IN
                       /\ row.transactionType = HistoryTypeOf(req[r].kind)
                       /\ row.userId = req[r].userId
                       /\ row.amount > 0
      ]_vars

\* a charge row and a payment row have been appended
C27_Witness ==
    /\ \E i \in 1..Len(transactionHistory) : transactionHistory[i].transactionType = "charge"
    /\ \E i \in 1..Len(transactionHistory) : transactionHistory[i].transactionType = "payment"
    /\ \E r \in Pays : Succeeded(r)

\* the request r takes a step
Steps(r) == req'[r] # req[r]

(* C30: an admin charge or a pay request changes the balance of the user it
   targets only (the charged uid, the authenticated caller): in every step
   of these two operations every other user's balance and every order,
   order detail and product row stay as they were. *)
C30_OnlyTargetBalanceChanges ==
    [][ \A r \in ReqIds :
          (Steps(r) /\ req'[r].kind \in {"charge", "pay"}) =>
              /\ products' = products
              /\ orders' = orders
              /\ orderDetails' = orderDetails
              /\ Len(users') = Len(users)
              /\ \A i \in 1..Len(users) :
                    /\ users'[i].uid = users[i].uid
                    /\ users'[i].balance # users[i].balance
                          => users[i].uid = req[r].uid
      ]_vars

\* u1 was charged and has paid, u2 was charged: each holds its own balance
C30_Witness ==
    /\ \E r \in Pays : req[r].uid = "u1" /\ WroteBalance(r)
    /\ \E r \in Charges : req[r].uid = "u2" /\ WroteBalance(r)
    /\ users[1].uid = "u1" /\ users[1].balance = 0
    /\ users[2].uid = "u2" /\ users[2].balance = 1

----------------------------------------------------------------------------
(* Sequential runs (SpecSeq): the latest request ran alone, and pre holds   *)
(* the tables as they were when it began.                                   *)

Latest(r) == req[r].pc # "idle" /\ \A q \in ReqIds : q > r => req[q].pc = "idle"

\* the pay request r began with its payment prepaid and pending and its user known
PayableBefore(r) ==
    /\ r \in Pays
    /\ Latest(r)
    /\ PrepaidPaymentIdIn(pre.payments, req[r].txn) # 0
    /\ pre.payments[PrepaidPaymentIdIn(pre.payments, req[r].txn)].status = "pending"
    /\ UserIdIn(pre.users, req[r].uid) # 0

AmountBefore(r) == pre.payments[PrepaidPaymentIdIn(pre.payments, req[r].txn)].amount

BalanceBefore(r) == pre.users[UserIdIn(pre.users, req[r].uid)].balance

(* C6: settling the same transactionId twice in sequence (the first time    *)
(* with sufficient balance) succeeds the first time and is rejected the     *)
(* second time with 400 "not pending"; the second call changes no balance   *)
(* and appends no history row.                                              *)
C6_SecondSettleRejected ==
    \A r1, r2 \in Pays :
        ( /\ r1 < r2
          /\ req[r1].txn = req[r2].txn
          /\ Answered(r1) /\ resp[r1].code \notin {400, 404}
          /\ Answered(r2) /\ Latest(r2) )
        => /\ resp[r1].code = 200
           /\ Rejected(r2, 400, "Payment is not pending")
           /\ users = pre.users
           /\ transactionHistory = pre.transactionHistory

\* sum of price*quantity over the detail rows of an order
DetailsTotalOf(orderId) ==
    SumSeq([i \in 1..Len(orderDetails) |->
               IF orderDetails[i].orderId = orderId
               THEN orderDetails[i].price * orderDetails[i].quantity ELSE 0])

OrderSucceeded(r) == req[r].kind = "order" /\ Answered(r) /\ resp[r].code = 200

(* C8: for every createOrder that returns successfully, the sum of          *)
(* price*quantity over the order's persisted detail rows equals the         *)
(* persisted Order.totalAmount, which equals the persisted Payment.amount,  *)
(* which equals the amount in the response.                                 *)
C8_AmountsAgree ==
    \A r \in ReqIds :
        OrderSucceeded(r) =>
            /\ req[r].orderId \in 1..Len(orders)
            /\ req[r].paymentId \in 1..Len(payments)
            /\ payments[req[r].paymentId].orderId = req[r].orderId
            /\ payments[req[r].paymentId].transactionId = resp[r].transactionId
            /\ DetailsTotalOf(req[r].orderId) = orders[req[r].orderId].totalAmount
            /\ orders[req[r].orderId].totalAmount = payments[req[r].paymentId].amount
            /\ payments[req[r].paymentId].amount = resp[r].amount

\* two orders succeeded, one of them with two detail lines and total 3
C8_Witness ==
    \E r1, r2 \in ReqIds :
        /\ r1 # r2
        /\ OrderSucceeded(r1) /\ OrderSucceeded(r2)
        /\ Cardinality({i \in 1..Len(orderDetails) :
                           orderDetails[i].orderId = req[r1].orderId}) = 2
        /\ resp[r1].amount = 3
        /\ resp[r2].amount = 2

(* C9: a pay request with no concurrent request, for a pending prepaid      *)
(* payment, by a user whose balance is >= the amount, returns 200 with      *)
(* status 'completed'; the payment becomes 'completed' with paidAt set, the *)
(* balance goes down by exactly the amount, and exactly one 'payment'       *)
(* history row with that transactionId, user and amount is appended.        *)
C9_SettleSucceeds ==
    \A r \in ReqIds :
        (PayableBefore(r) /\ Answered(r) /\ BalanceBefore(r) >= AmountBefore(r))
        => LET pid == PrepaidPaymentIdIn(pre.payments, req[r].txn)
               uid == UserIdIn(pre.users, req[r].uid)
           IN  /\ resp[r].code = 200
               /\ resp[r].status = "completed"
               /\ payments[pid].status = "completed"
               /\ payments[pid].paidAt
               /\ users[uid].balance = BalanceBefore(r) - AmountBefore(r)
               /\ transactionHistory =
                      Append(pre.transactionHistory,
                             HistoryRow(req[r].txn, uid, AmountBefore(r), "payment"))

(* C10: a pay request for a pending prepaid payment by a user whose balance *)
(* is less than the amount fails with 400 InsufficientBalance; the balance  *)
(* is unchanged, the payment stays 'pending' and no history row is written. *)
C10_InsufficientBalanceRejected ==
    \A r \in ReqIds :
        (PayableBefore(r) /\ Answered(r) /\ BalanceBefore(r) < AmountBefore(r))
        => /\ Rejected(r, 400, "Insufficient balance")
           /\ users = pre.users
           /\ payments = pre.payments
           /\ transactionHistory = pre.transactionHistory

\* a user holding 1 was refused a payment of 2
C10_Witness ==
    \E r \in ReqIds :
        /\ PayableBefore(r) /\ Answered(r)
        /\ BalanceBefore(r) = 1 /\ AmountBefore(r) = 2
        /\ Rejected(r, 400, "Insufficient balance")

----------------------------------------------------------------------------
(* createOrder (SpecOrder): what a request asked for, against what it got. *)

\* an order request whose body was read: the catalog sync returned its snapshot
Validated(r) == req[r].kind = "order" /\ req[r].method # ""

\* the snapshot holds an entry with the detail's productId and declared price
CatalogHas(itemData, d) ==
    \E i \in 1..Len(itemData) :
        itemData[i].jan_code = d.productId /\ itemData[i].price = d.price

AllLinesKnown(r) ==
    \A i \in 1..Len(req[r].details) : CatalogHas(req[r].itemData, req[r].details[i])

\* sum of price*quantity over the lines the client sent
LinesTotal(details) ==
    SumSeq([i \in 1..Len(details) |-> details[i].price * details[i].quantity])

\* no Order, OrderDetail or Payment row is of request r: every row there is
\* belongs to the order or the payment another request inserted
NoRowOf(r) ==
    /\ req[r].orderId = 0 /\ req[r].paymentId = 0
    /\ \A i \in 1..Len(orders) : \E q \in ReqIds \ {r} : req[q].orderId = i
    /\ \A i \in 1..Len(orderDetails) :
          \E q \in ReqIds \ {r} : req[q].orderId = orderDetails[i].orderId
    /\ \A i \in 1..Len(payments) : \E q \in ReqIds \ {r} : req[q].paymentId = i

(* C11: a createOrder request with a detail that has no entry in the        *)
(* fetched catalog snapshot with both its productId and its declared price  *)
(* is answered 400 "Unknown product", and no Order, OrderDetail or Payment  *)
(* row is persisted for it.                                                 *)
C11_UnknownProductRejected ==
    \A r \in ReqIds :
        (Validated(r) /\ Answered(r) /\ ~AllLinesKnown(r))
        => /\ Rejected(r, 400, "Unknown product")
           /\ NoRowOf(r)

\* the catalog has p1 at 2, the order declares p1 at 1 and is refused, after
\* another order was persisted
C11_Witness ==
    \E r \in ReqIds :
        /\ Rejected(r, 400, "Unknown product")
        /\ req[r].itemData = <<Item("p1", "n1", 2)>>
        /\ req[r].details = <<Detail("p1", "n1", 1, 1)>>
        /\ Len(orders) = 1 /\ Len(payments) = 1 /\ Len(orderDetails) = 1

(* C12: a createOrder request whose details all match the catalog but whose *)
(* sum of price*quantity differs from the declared totalAmount is answered  *)
(* 400 "Invalid totalAmount", and no Order, OrderDetail or Payment row is   *)
(* persisted for it.                                                        *)
C12_TotalMismatchRejected ==
    \A r \in ReqIds :
        ( /\ Validated(r) /\ Answered(r) /\ AllLinesKnown(r)
          /\ LinesTotal(req[r].details) # req[r].amount )
        => /\ Rejected(r, 400, "Invalid totalAmount")
           /\ NoRowOf(r)

\* two known lines worth 3 with a declared total of 2 are refused, after
\* another order was persisted
C12_Witness ==
    \E r \in ReqIds :
        /\ Rejected(r, 400, "Invalid totalAmount")
        /\ Len(req[r].details) = 2 /\ AllLinesKnown(r)
        /\ LinesTotal(req[r].details) = 3 /\ req[r].amount = 2
        /\ Len(orders) = 1 /\ Len(payments) = 1

(* C13: for every successful createOrder, the Payment is persisted and      *)
(* reported with status 'completed' exactly when paymentMethod is cash or   *)
(* the declared total is 0, and with status 'pending' otherwise.            *)
C13_InitialPaymentStatus ==
    \A r \in ReqIds :
        OrderSucceeded(r) =>
            LET completes == req[r].method = "cash" \/ req[r].amount = 0
                status == IF completes THEN "completed" ELSE "pending"
            IN  /\ req[r].paymentId \in 1..Len(payments)
                /\ payments[req[r].paymentId].status = status
                /\ resp[r].status = status

\* a prepaid order of total 0 came back completed and a prepaid order of a
\* positive total came back pending
C13_Witness ==
    \E r1, r2 \in ReqIds :
        /\ OrderSucceeded(r1) /\ OrderSucceeded(r2)
        /\ req[r1].method = "prepaid" /\ req[r1].amount = 0
        /\ resp[r1].status = "completed"
        /\ req[r2].method = "prepaid" /\ req[r2].amount > 0
        /\ resp[r2].status = "pending"

(* C14: the createOrder response carries a payUrl if and only if the        *)
(* returned payment status is 'pending', and the payUrl then carries the    *)
(* transactionId returned in the same response.                             *)
C14_PayUrlIffPending ==
    \A r \in ReqIds :
        OrderSucceeded(r) =>
            /\ (resp[r].payUrl # "") <=> (resp[r].status = "pending")
            /\ resp[r].payUrl # "" =>
                  resp[r].payUrl = "/pay?txnId=" \o resp[r].transactionId

\* a cash order came back without payUrl and a prepaid one with the payUrl
\* of its transactionId
C14_Witness ==
    \E r1, r2 \in ReqIds :
        /\ OrderSucceeded(r1) /\ OrderSucceeded(r2)
        /\ resp[r1].method = "cash" /\ resp[r1].payUrl = ""
        /\ resp[r2].status = "pending"
        /\ resp[r2].transactionId = "t2" /\ resp[r2].payUrl = "/pay?txnId=t2"

(* C20: in every reachable state no two payment rows carry the same
   transactionId, whatever createOrder calls, in whatever interleaving,
   produced them. *)
C20_TransactionIdUnique ==
    \A i, j \in 1..Len(payments) :
        payments[i].transactionId = payments[j].transactionId => i = j

\* two overlapping createOrder calls have each inserted their payment
C20_Witness ==
    /\ Len(payments) = 2
    /\ OrderSucceeded(1) /\ OrderSucceeded(2)
    /\ ~req[2].alone
    /\ req[1].paymentId # req[2].paymentId

\* the payment rows of an order
PaymentsOf(orderId) == {i \in 1..Len(payments) : payments[i].orderId = orderId}

(* C21: every order has at most one payment in every reachable state, and
   exactly one once the createOrder call that created it has returned
   successfully. *)
C21_OnePaymentPerOrder ==
    /\ \A o \in 1..Len(orders) : Cardinality(PaymentsOf(o)) <= 1
    /\ \A r \in ReqIds :
          OrderSucceeded(r) =>
              /\ req[r].orderId \in 1..Len(orders)
              /\ Cardinality(PaymentsOf(req[r].orderId)) = 1

\* two orders: the first has returned with its payment, the second has no
\* payment yet
C21_Witness ==
    /\ Len(orders) = 2
    /\ OrderSucceeded(1) /\ req[1].orderId = 1 /\ PaymentsOf(1) = {req[1].paymentId}
    /\ req[2].orderId = 2 /\ PaymentsOf(2) = {}

(* C23: whenever createOrder returns successfully with payment status
   'completed' (cash, or a total of zero) the persisted order's status is
   'completed'; whenever it returns with status 'pending' the persisted
   order's status is 'pending'. *)
C23_OrderStatusFollowsPayment ==
    \A r \in ReqIds :
        OrderSucceeded(r) =>
            /\ resp[r].status \in {"completed", "pending"}
            /\ orders[req[r].orderId].status = resp[r].status

\* one createOrder has returned completed, another pending
C23_Witness ==
    \E r1, r2 \in ReqIds :
        /\ OrderSucceeded(r1) /\ resp[r1].status = "completed"
        /\ orders[req[r1].orderId].status = "completed"
        /\ OrderSucceeded(r2) /\ resp[r2].status = "pending"
        /\ orders[req[r2].orderId].status = "pending"

\* the products row of a fetched item
SyncedRow(item) == [id |-> item.jan_code, name |-> item.name, price |-> item.price]

\* the request r runs its catalog sync statement in this step
Syncs(r) == req[r].pc = "o_upsert" /\ req'[r].pc # "o_upsert"

(* C28: for any fetched product list and any prior catalog contents the
   catalog sync succeeds, and afterwards every fetched item is a product
   under its external id with exactly the fetched name and price (a row with
   the same id is overwritten, also when the fetched name was held by a
   product with another id), while products absent from the fetch are
   unchanged. *)
C28_CatalogSync ==
    [][ \A r \in ReqIds :
          Syncs(r) =>
              /\ resp'[r].code # 500
              /\ \A k \in 1..Len(req[r].itemData) :
                    SyncedRow(req[r].itemData[k]) \in products'
              /\ \A p \in products :
                    (\A k \in 1..Len(req[r].itemData) :
                        req[r].itemData[k].jan_code # p.id) => p \in products'
      ]_vars

(* C29: if the upstream catalog fetch fails, createOrder fails and has
   performed no write of any kind: no product is upserted and no order,
   detail or payment row is created; a request that awaits the fetch has
   written nothing, and the step in which the fetch fails answers an error
   and leaves every table as it was. *)
C29_FetchFailureWritesNothing ==
    [][ \A r \in ReqIds :
          req[r].pc = "o_fetch" =>
              /\ NoRowOf(r)
              /\ req'[r].pc = "done" =>
                    /\ resp'[r].code >= 500
                    /\ db' = db
                    /\ NoRowOf(r)'
      ]_vars

\* request 2's fetch failed while request 1 had written its rows
C29_Witness ==
    /\ req[1].orderId = 1 /\ products # {}
    /\ req[2].kind = "order" /\ FailedMidway(2)
    /\ req[2].itemData = <<>> /\ req[2].method = ""
    /\ NoRowOf(2)

----------------------------------------------------------------------------
(* Concurrent createOrder requests that may fail anywhere (SpecOrderFault) *)

\* the order_details rows of an order
DetailsOf(orderId) ==
    {i \in 1..Len(orderDetails) : orderDetails[i].orderId = orderId}

\* every line of the request that created the order is a row of the order,
\* and the order has no other row
DetailsAllWritten(orderId) ==
    \E r \in ReqIds :
        /\ req[r].kind = "order" /\ req[r].orderId = orderId
        /\ Cardinality(DetailsOf(orderId)) = Len(req[r].details)
        /\ \A k \in 1..Len(req[r].details) :
              \E i \in DetailsOf(orderId) :
                  orderDetails[i] = OrderDetailRow(orderId, req[r].details[k])

(* C24: createOrder writes order, details, payment, order completion in this
   sequence, so in every reachable state, states after a request failed
   between two statements included, every payment row references an existing
   order whose detail rows were all written, and an order is 'completed'
   only if its payment row exists with status 'completed'; an order without
   payment, or a 'pending' order with a 'completed' payment, is left only by
   a request that failed midway, never by one that returned successfully. *)
C24_WritesInSequence ==
    /\ \A i \in 1..Len(payments) :
          /\ payments[i].orderId \in 1..Len(orders)
          /\ DetailsAllWritten(payments[i].orderId)
    /\ \A o \in 1..Len(orders) :
          orders[o].status = "completed" =>
              \E i \in PaymentsOf(o) : payments[i].status = "completed"
    /\ \A r \in ReqIds :
          OrderSucceeded(r) =>
              \E i \in PaymentsOf(req[r].orderId) :
                  payments[i].status = "completed"
                      => orders[req[r].orderId].status = "completed"

\* a request failed after its payment insert and left a 'pending' order with a
\* 'completed' payment; another failed after its first statement and left an
\* order with two lines and no payment
C24_Witness ==
    \E r1, r2 \in ReqIds :
        /\ FailedMidway(r1) /\ req[r1].paymentId # 0
        /\ payments[req[r1].paymentId].status = "completed"
        /\ orders[req[r1].orderId].status = "pending"
        /\ Len(req[r1].details) > 0
        /\ FailedMidway(r2) /\ req[r2].orderId # 0
        /\ PaymentsOf(req[r2].orderId) = {}

----------------------------------------------------------------------------
(* Sequential runs (SpecSeq), continued. *)

(* C15: an admin charge of amount > 0 for an existing user, run with no     *)
(* concurrent request, increases that user's balance by exactly the amount, *)
(* returns the new balance and appends exactly one 'charge' history row     *)
(* with that user and amount; for an unknown uid it returns 404 and changes *)
(* nothing.                                                                 *)
C15_ChargeCredits ==
    \A r \in Charges :
        (Latest(r) /\ Answered(r)) =>
            LET id == UserIdIn(pre.users, req[r].uid) IN
            IF id # 0
            THEN /\ resp[r].code = 200
                 /\ resp[r].balance = pre.users[id].balance + req[r].amount
                 /\ users = [pre.users EXCEPT ![id].balance = @ + req[r].amount]
                 /\ transactionHistory =
                        Append(pre.transactionHistory,
                               HistoryRow(resp[r].transactionId, id,
                                          req[r].amount, "charge"))
            ELSE /\ Rejected(r, 404, "User not found")
                 /\ Snapshot = pre

(* C16: crediting a user with N and then settling a pending prepaid payment *)
(* of amount N for that user, one after the other, returns the balance to   *)
(* its value before the credit and adds exactly two history rows, one       *)
(* 'charge' and one 'payment', each of amount N.  Stated for the first two  *)
(* requests of a run: before the credit the balance is 0 and the history is *)
(* empty (InitSeeded).                                                      *)
C16_CreditThenSettleRoundTrip ==
    ( /\ 1 \in Charges /\ Answered(1)
      /\ PayableBefore(2) /\ Answered(2)
      /\ req[2].uid = req[1].uid
      /\ AmountBefore(2) = req[1].amount )
    => LET id == UserIdIn(pre.users, req[2].uid) IN
       /\ users[id].balance = 0
       /\ transactionHistory =
              << HistoryRow(resp[1].transactionId, id, req[1].amount, "charge"),
                 HistoryRow(req[2].txn, id, req[1].amount, "payment") >>

(* C17: a payment lookup returns the amount, method and status of the payment
   whose transactionId is the requested one, however many payments are
   stored, and answers 404 when no payment has that transactionId. *)
C17_GetPaymentReturnsRequested ==
    \A r \in ReqIds :
        (req[r].kind = "getPayment" /\ Answered(r)) =>
            LET id == PaymentIdByTxn(req[r].txn) IN
            IF id = 0
            THEN resp[r].code = 404
            ELSE /\ resp[r].code = 200
                 /\ resp[r].transactionId = req[r].txn
                 /\ resp[r].amount = payments[id].amount
                 /\ resp[r].method = payments[id].method
                 /\ resp[r].status = payments[id].status

\* the profile lookups
Profiles == {r \in ReqIds : req[r].kind = "profile"}

\* the first lookup of an identity appended its row with balance 0, a later
\* one left the users alone; either answered with the identity's row
ProfileOf(r, before) ==
    LET id == UserIdIn(before, req[r].uid) IN
    /\ resp[r].code = 200
    /\ resp[r].uid = req[r].uid
    /\ IF id = 0
       THEN /\ users = Append(before, UserRow(req[r].uid, 0))
            /\ resp[r].userId = Len(users)
            /\ resp[r].balance = 0
       ELSE /\ users = before
            /\ resp[r].userId = id

(* C19: the first profile lookup of an identity without a user row creates
   exactly one user, with balance 0, and returns it; every later lookup of
   that identity returns the same user id, creates no row and changes no
   balance. *)
C19_LazyProfile ==
    /\ \A r \in Profiles : (Latest(r) /\ Answered(r)) => ProfileOf(r, pre.users)
    /\ \A r1, r2 \in Profiles :
          (Answered(r1) /\ Answered(r2) /\ req[r1].uid = req[r2].uid)
              => resp[r1].userId = resp[r2].userId

\* u9 was created by its first lookup, then charged, then looked up again
C19_Witness ==
    /\ req[1].kind = "profile" /\ req[1].uid = "u9" /\ resp[1].userId = 3
    /\ req[2].kind = "charge" /\ req[2].uid = "u9" /\ Answered(2)
    /\ req[3].kind = "profile" /\ req[3].uid = "u9" /\ Answered(3)
    /\ resp[3].userId = 3 /\ resp[3].balance > 0
    /\ Len(users) = 3

----------------------------------------------------------------------------
(* Concurrent profile lookups (SpecProfile) *)

\* no two user rows hold the same uid
OneUserPerUid(table) ==
    \A i, j \in 1..Len(table) : table[i].uid = table[j].uid => i = j

(* C18: when two first-time profile lookups of one identity run
   concurrently, at most one user row of that identity is created, and both
   requests return successfully with that account: a lookup that read no row
   answers 200 with the identity's only row, whoever inserted it. *)
C18_ConcurrentFirstLookups ==
    [][ /\ OneUserPerUid(users')
        /\ \A r \in ReqIds :
              (req[r].pc = "f_insertUser" /\ req'[r].pc = "done")
                  => /\ resp'[r].code = 200
                     /\ resp'[r].uid = req[r].uid
                     /\ resp'[r].userId = UserIdIn(users', req[r].uid) ]_vars

\* when the pay request r began no payment carried its transactionId, or the
\* one that did was a cash payment
NoPrepaidPaymentBefore(r) ==
    \A i \in 1..Len(pre.payments) :
        pre.payments[i].transactionId = req[r].txn => pre.payments[i].method = "cash"

(* C25: a pay request for a transactionId that has no payment, or whose
   payment has method 'cash', fails with 404 and changes no balance, no
   payment and no history row. *)
C25_NoPrepaidPaymentNotFound ==
    \A r \in Pays :
        (Latest(r) /\ Answered(r) /\ NoPrepaidPaymentBefore(r)) =>
            /\ resp[r].code = 404
            /\ users = pre.users
            /\ payments = pre.payments
            /\ transactionHistory = pre.transactionHistory

\* u1 was charged, then asked to settle the cash payment t3 and was answered 404
C25_Witness ==
    /\ 1 \in Charges /\ req[1].uid = "u1" /\ users[1].balance > 0
    /\ 2 \in Pays /\ req[2].uid = "u1" /\ req[2].txn = "t3"
    /\ Rejected(2, 404, "Payment not found")
    /\ \E i \in 1..Len(payments) :
          payments[i].transactionId = "t3" /\ payments[i].method = "cash"

----------------------------------------------------------------------------
(* Pay requests that fail on storage, and their retries (SpecFault) *)

\* the payments some pay request of the user was made for
SettledFor(id) ==
    {i \in 1..Len(payments) :
        \E r \in Pays : /\ req[r].txn = payments[i].transactionId
                        /\ payments[i].method = "prepaid"
                        /\ UserIdByUid(req[r].uid) = id}

\* what has been taken off the user's balance: charged minus held
Debited(id) == ChargedTo(Charges, id) - users[id].balance

(* C22: a pay request that fails on a storage timeout or transport error
   after any of its statements leaves no silent partial state: a retry for
   the same transactionId never debits the balance a second time, so at most
   one debit of the payment amount is applied per payment; what has been
   taken off a user's balance is at most the sum of the amounts of the
   payments the user's requests were made for. *)
C22_RetryNeverDebitsTwice ==
    \A id \in 1..Len(users) :
        Debited(id) <= SumSeq([i \in 1..Len(payments) |->
                                 IF i \in SettledFor(id) THEN payments[i].amount ELSE 0])

----------------------------------------------------------------------------
(* A checkout next to charges and pay requests (SpecAll) *)

(* C26: statuses and amounts only move forward: in every step of every
   operation no order and no payment goes from 'completed' to another
   status, no Order.totalAmount and no Payment.amount changes after the row
   was created, and no order or payment row is deleted. *)
C26_ForwardOnly ==
    [][ /\ Len(orders') >= Len(orders)
        /\ Len(payments') >= Len(payments)
        /\ \A o \in 1..Len(orders) :
              /\ orders'[o].totalAmount = orders[o].totalAmount
              /\ orders[o].status = "completed" => orders'[o].status = "completed"
        /\ \A i \in 1..Len(payments) :
              /\ payments'[i].transactionId = payments[i].transactionId
              /\ payments'[i].orderId = payments[i].orderId
              /\ payments'[i].amount = payments[i].amount
              /\ payments[i].status = "completed" => payments'[i].status = "completed"
      ]_vars

\* the checkout's order was completed by its follow-up write, and the seeded
\* payment t1 was completed by a pay request
C26_Witness ==
    /\ OrderSucceeded(1) /\ req[1].amount > 0
    /\ orders[req[1].orderId].status = "completed"
    /\ payments[req[1].paymentId].status = "completed"
    /\ \E r \in Pays : req[r].txn = "t1" /\ Answered(r)
    /\ payments[1].transactionId = "t1" /\ payments[1].status = "completed"

====
